---- MODULE Spec2Model ----
(***************************************************************************)
(* Model of the HBN-SSI fetcher (data_fetcher/data_fetcher.py) and of the  *)
(* event file script (generate_events.py).                                 *)
(*                                                                         *)
(* A path is a sequence of components, absolute when its first component   *)
(* is "/".  File names and URLs are strings built with \o, as the code     *)
(* builds them with str.format.  The file-retrieval collaborator           *)
(* (_fetch_files) is modelled by its contract: a request whose target is   *)
(* present is skipped, any other request downloads and moves the file to   *)
(* the target, or raises.                                                  *)
(***************************************************************************)
EXTENDS Naturals, Sequences, FiniteSets, TLC

VARIABLES
    registryFile,   \* remote participants.csv: [sids, wellFormed]
    lookupFile,     \* bundled hbnssi.csv: [rows, wellFormed]
    fs,             \* the paths (files and directories) present on disk
    run,            \* number of calls of fetch_hbnssi so far
    resume,         \* fetch_hbnssi's resume argument of the current call
    pc,             \* position inside fetch_hbnssi
    participants,   \* participants['sid'] once the registry is parsed
    i,              \* index of the loop `for sid in participants['sid']`
    k,              \* which of the four downloads of the loop body is next
    requests,       \* the calls of _fetch_files of the current call, in order
    made,           \* the Path.mkdir calls of the current call, in order
    derivatives_dir,\* <<>> until _fetch_hbnssi_functional has returned
    result,         \* <<>> until fetch_hbnssi has returned its Bunch
    err,            \* the exception that ended the current call, or "none"
    prevRun,        \* what the previous call left: [returned, result, fs]
    cwd,            \* generate_events.py: file name -> content, working dir
    seq,            \* generate_events.py: `for seq in range(1, 4)`
    sessions,       \* generate_events.py: rows of the sub-*sessions.tsv files
    rowIdx,         \* generate_events.py: index of the next session row
    folders,        \* generate_events.py: the func folders that exist
    copied,         \* generate_events.py: destination path -> content
    epc             \* generate_events.py: position in the script

fetchVars == <<registryFile, lookupFile, fs, run, resume, pc, participants, i, k,
               requests, made, derivatives_dir, result, err, prevRun>>
eventVars == <<cwd, seq, sessions, rowIdx, folders, copied, epc>>
vars == <<registryFile, lookupFile, fs, run, resume, pc, participants, i, k,
          requests, made, derivatives_dir, result, err, prevRun,
          cwd, seq, sessions, rowIdx, folders, copied, epc>>

(***************************************************************************)
(* Bounds                                                                  *)
(***************************************************************************)
MaxSubjects == 2    \* longest registry
MaxRuns == 2        \* calls of fetch_hbnssi against the same dataset root
MaxRows == 2        \* session rows read by the copy loop
MaxTrials == 2      \* trials of a flanker sequence log

SubjectIds == {"1", "12"}

RECURSIVE SeqsUpTo(_, _)
SeqsUpTo(S, n) ==
    IF n = 0 THEN {<<>>}
    ELSE LET shorter == SeqsUpTo(S, n - 1)
         IN  shorter \cup {Append(s, x) : s \in {t \in shorter : Len(t) = n - 1}, x \in S}

Distinct(s) == \A a, b \in DOMAIN s : a # b => s[a] # s[b]

(***************************************************************************)
(* Strings and paths                                                       *)
(***************************************************************************)
\* str.format on a template with one slot, kept as <<before, after>>
Format(template, x) == template[1] \o x \o template[2]

\* Path(a, name) and os.path.join(a, b): an absolute second part wins
PathJoin(a, b) == IF b # <<>> /\ b[1] = "/" THEN b ELSE a \o b

Parent(p) == SubSeq(p, 1, Len(p) - 1)

\* the dataset root _get_dataset_dir returns
DataDir == <<"/", "nilearn_data", "hbnssi">>

participants_url == "https://osf.io/wtvh3/download"
participants_fname == <<"participants.csv">>
mask_url == "https://osf.io/kp6m9/download"
mask_fname == <<"tpl-MNI152NLin2009cAsym_res-3mm_label-GM_desc-thr02_probseg.nii.gz">>
url == <<"https://osf.io/download/", "/">>

raiders == <<"sub-", "_task-RAIDERS_space-MNI152NLin2009cAsym_desc-postproc_bold.nii.gz">>
flanker == <<"sub-", "_task-FLANKERTASK_space-MNI152NLin2009cAsym_desc-postproc_bold.nii.gz">>
conditions == <<"sub-", "_labels.csv">>
runsColliding == <<"sub-", "_labels.csv">>
runs == <<"sub-", "_runs.csv">>

\* the order of the four downloads in the loop body
KindOrderFlankerFirst == <<"flanker", "raiders", "condition", "run">>
KindOrder == <<"raiders", "flanker", "condition", "run">>

TemplateOf(kind) ==
    CASE kind = "raiders" -> raiders
      [] kind = "flanker" -> flanker
      [] kind = "condition" -> conditions
      [] kind = "run" -> runs

DerivativesDir == PathJoin(DataDir, <<"derivatives">>)
TargetOf(sid, kind) == PathJoin(DerivativesDir, <<Format(TemplateOf(kind), sid)>>)

\* osf_data[osf_data['sid'] == sid]
RowsOf(table, sid) == SelectSeq(table, LAMBDA r : r.sid = sid)

\* a lookup row: every key present, or the key of one kind empty
FullRow(sid) ==
    [sid |-> sid, raiders |-> "r" \o sid, flanker |-> "f" \o sid,
     condition |-> "c" \o sid, run |-> "n" \o sid]
RowChoices(sid) ==
    {FullRow(sid)} \cup {[FullRow(sid) EXCEPT ![kind] = ""] : kind \in {"raiders", "flanker", "condition", "run"}}

\* the lookup tables: for each subject id no row or one row, in id order
Tables ==
    {t1 \o t2 : t1 \in {<<>>} \cup {<<r>> : r \in RowChoices("1")},
                t2 \in {<<>>} \cup {<<r>> : r \in RowChoices("12")}}

(***************************************************************************)
(* The file-retrieval collaborator, _fetch_files(data_dir, files, ...)     *)
(***************************************************************************)
\* the resume value _fetch_files works with: its default when none is passed
ResumeSeen(passed) == IF passed = <<>> THEN TRUE ELSE passed[1]

\* the request a call _fetch_files(data_dir, [(file_, u, {'move': file_})]) issues
Request(subj, kind, file_, u, passed) ==
    [subj |-> subj, kind |-> kind, target |-> PathJoin(DataDir, file_), url |-> u,
     resume |-> ResumeSeen(passed), status |-> "pending"]

\* how the collaborator may answer: skip when the target is present
Outcomes(req) == IF req.target \in fs THEN {"skipped"} ELSE {"downloaded", "failed"}

Succeeded(status) == status \in {"skipped", "downloaded"}

\* the last request gets its answer; a download moves the file to its target,
\* creating the target's directory
Answer(outcome) ==
    LET n == Len(requests) IN
    /\ requests' = [requests EXCEPT ![n].status = outcome]
    /\ fs' = IF outcome = "downloaded"
             THEN fs \cup {requests[n].target, Parent(requests[n].target)}
             ELSE fs

Raise(e) == pc' = "error" /\ err' = e

\* Path.mkdir(parents=True, exist_ok=...) on a directory of the dataset root
MkdirOutcomes(p, exist_ok) ==
    IF p \in fs THEN (IF exist_ok THEN {"exists"} ELSE {"FileExistsError"})
    ELSE {"created", "OSError"}

(***************************************************************************)
(* fetch_hbnssi                                                            *)
(***************************************************************************)
\* a caller calls fetch_hbnssi(resume=r); _get_dataset_dir makes the root
Call ==
    /\ pc \in {"idle", "returned", "error"}
    /\ run < MaxRuns
    /\ \E r \in BOOLEAN : resume' = r
    /\ run' = run + 1
    /\ prevRun' = [returned |-> pc = "returned", result |-> result, fs |-> fs]
    /\ fs' = fs \cup {DataDir}
    /\ pc' = "participants"
    /\ participants' = <<>> /\ i' = 0 /\ k' = 0
    /\ requests' = <<>> /\ made' = <<>>
    /\ derivatives_dir' = <<>> /\ result' = <<>> /\ err' = "none"
    /\ UNCHANGED <<registryFile, lookupFile>>
    /\ UNCHANGED eventVars

\* _fetch_hbnssi_participants: the request for participants.csv
ParticipantsIssue ==
    /\ pc = "participants"
    /\ requests' = Append(requests,
           Request(0, "participants", participants_fname, participants_url, <<>>))
    /\ pc' = "participants_wait"
    /\ UNCHANGED <<registryFile, lookupFile, fs, run, resume, participants, i, k,
                   made, derivatives_dir, result, err, prevRun>>
    /\ UNCHANGED eventVars

ParticipantsReturnSkippingMask ==
    /\ pc = "participants_wait"
    /\ \E o \in Outcomes(requests[Len(requests)]) :
        /\ Answer(o)
        /\ IF ~Succeeded(o) THEN Raise("retrieval") /\ UNCHANGED participants
           ELSE IF ~registryFile.wellFormed THEN Raise("parse") /\ UNCHANGED participants
           ELSE participants' = registryFile.sids /\ pc' = "functional" /\ UNCHANGED err
    /\ UNCHANGED <<registryFile, lookupFile, run, resume, i, k,
                   made, derivatives_dir, result, prevRun>>
    /\ UNCHANGED eventVars

\* _fetch_hbnssi_participants: _fetch_files answers, csv_to_array parses
ParticipantsReturn ==
    /\ pc = "participants_wait"
    /\ \E o \in Outcomes(requests[Len(requests)]) :
        /\ Answer(o)
        /\ IF ~Succeeded(o) THEN Raise("retrieval") /\ UNCHANGED participants
           ELSE IF ~registryFile.wellFormed THEN Raise("parse") /\ UNCHANGED participants
           ELSE participants' = registryFile.sids /\ pc' = "mask" /\ UNCHANGED err
    /\ UNCHANGED <<registryFile, lookupFile, run, resume, i, k,
                   made, derivatives_dir, result, prevRun>>
    /\ UNCHANGED eventVars

\* _fetch_hbnssi_brain_mask: the request for the mask
MaskIssue ==
    /\ pc = "mask"
    /\ requests' = Append(requests, Request(0, "mask", mask_fname, mask_url, <<>>))
    /\ pc' = "mask_wait"
    /\ UNCHANGED <<registryFile, lookupFile, fs, run, resume, participants, i, k,
                   made, derivatives_dir, result, err, prevRun>>
    /\ UNCHANGED eventVars

MaskReturnIgnoringFailure ==
    /\ pc = "mask_wait"
    /\ \E o \in Outcomes(requests[Len(requests)]) :
        /\ Answer(o)
        /\ pc' = "functional" /\ UNCHANGED err
    /\ UNCHANGED <<registryFile, lookupFile, run, resume, participants, i, k,
                   made, derivatives_dir, result, prevRun>>
    /\ UNCHANGED eventVars

\* _fetch_hbnssi_brain_mask: _fetch_files answers
MaskReturn ==
    /\ pc = "mask_wait"
    /\ \E o \in Outcomes(requests[Len(requests)]) :
        /\ Answer(o)
        /\ IF ~Succeeded(o) THEN Raise("retrieval")
           ELSE pc' = "functional" /\ UNCHANGED err
    /\ UNCHANGED <<registryFile, lookupFile, run, resume, participants, i, k,
                   made, derivatives_dir, result, prevRun>>
    /\ UNCHANGED eventVars

\* _fetch_hbnssi_functional up to its loop: csv_to_array parses hbnssi.csv
FunctionalLoad ==
    /\ pc = "functional"
    /\ IF ~lookupFile.wellFormed THEN Raise("parse") /\ UNCHANGED <<i, k>>
       ELSE pc' = "loop" /\ i' = 1 /\ k' = 1 /\ UNCHANGED err
    /\ UNCHANGED <<registryFile, lookupFile, fs, run, resume, participants,
                   requests, made, derivatives_dir, result, prevRun>>
    /\ UNCHANGED eventVars

\* the loop body of _fetch_hbnssi_functional up to one call of _fetch_files:
\* the row lookup, the url and the target of download k of subject i
ArtifactIssueSkippingMissingRow ==
    /\ pc = "loop"
    /\ i <= Len(participants)
    /\ LET sid == participants[i]
           kind == KindOrder[k]
           this_osf_id == RowsOf(lookupFile.rows, sid)
       IN  IF this_osf_id = <<>>
           THEN /\ pc' = "loop" /\ i' = i + 1 /\ k' = 1
                /\ UNCHANGED <<requests, err>>
           ELSE /\ requests' = Append(requests,
                       Request(i, kind, TargetOf(sid, kind),
                               Format(url, this_osf_id[1][kind]), <<>>))
                /\ pc' = "loop_wait"
                /\ UNCHANGED <<i, k, err>>
    /\ UNCHANGED <<registryFile, lookupFile, fs, run, resume, participants,
                   made, derivatives_dir, result, prevRun>>
    /\ UNCHANGED eventVars

ArtifactIssue ==
    /\ pc = "loop"
    /\ i <= Len(participants)
    /\ LET sid == participants[i]
           kind == KindOrder[k]
           this_osf_id == RowsOf(lookupFile.rows, sid)
       IN  IF this_osf_id = <<>>
           THEN Raise("IndexError") /\ UNCHANGED <<requests, i, k>>
           ELSE /\ requests' = Append(requests,
                       Request(i, kind, TargetOf(sid, kind),
                               Format(url, this_osf_id[1][kind]), <<>>))
                /\ pc' = "loop_wait"
                /\ UNCHANGED <<i, k, err>>
    /\ UNCHANGED <<registryFile, lookupFile, fs, run, resume, participants,
                   made, derivatives_dir, result, prevRun>>
    /\ UNCHANGED eventVars

\* _fetch_files answers download k of subject i
ArtifactReturnSwallowingFailure ==
    /\ pc = "loop_wait"
    /\ \E o \in Outcomes(requests[Len(requests)]) :
        /\ Answer(o)
        /\ IF ~Succeeded(o) /\ FALSE THEN Raise("retrieval") /\ UNCHANGED <<i, k>>
           ELSE /\ pc' = "loop"
                /\ IF k < Len(KindOrder) THEN k' = k + 1 /\ i' = i
                   ELSE k' = 1 /\ i' = i + 1
                /\ UNCHANGED err
    /\ UNCHANGED <<registryFile, lookupFile, run, resume, participants,
                   made, derivatives_dir, result, prevRun>>
    /\ UNCHANGED eventVars

ArtifactReturn ==
    /\ pc = "loop_wait"
    /\ \E o \in Outcomes(requests[Len(requests)]) :
        /\ Answer(o)
        /\ IF ~Succeeded(o) /\ TRUE THEN Raise("retrieval") /\ UNCHANGED <<i, k>>
           ELSE /\ pc' = "loop"
                /\ IF k < Len(KindOrder) THEN k' = k + 1 /\ i' = i
                   ELSE k' = 1 /\ i' = i + 1
                /\ UNCHANGED err
    /\ UNCHANGED <<registryFile, lookupFile, run, resume, participants,
                   made, derivatives_dir, result, prevRun>>
    /\ UNCHANGED eventVars

\* the loop of _fetch_hbnssi_functional is over: it returns derivatives_dir
FunctionalReturn ==
    /\ pc = "loop"
    /\ i > Len(participants)
    /\ derivatives_dir' = <<DerivativesDir>>
    /\ pc' = "mkdir_decoding"
    /\ UNCHANGED <<registryFile, lookupFile, fs, run, resume, participants, i, k,
                   requests, made, result, err, prevRun>>
    /\ UNCHANGED eventVars

\* Path(data_dir, "decoding").mkdir(parents=True, exist_ok=True)
MkdirDecodingNoExistOk ==
    /\ pc = "mkdir_decoding"
    /\ LET p == PathJoin(DataDir, <<"decoding">>) IN
       \E o \in MkdirOutcomes(p, FALSE) :
        /\ made' = Append(made, [path |-> p, outcome |-> o])
        /\ fs' = IF o = "created" THEN fs \cup {p} ELSE fs
        /\ IF o \in {"created", "exists"}
           THEN pc' = "mkdir_mask_cache" /\ UNCHANGED <<err, result>>
           ELSE Raise("filesystem") /\ UNCHANGED result
    /\ UNCHANGED <<registryFile, lookupFile, run, resume, participants, i, k,
                   requests, derivatives_dir, prevRun>>
    /\ UNCHANGED eventVars

MkdirDecoding ==
    /\ pc = "mkdir_decoding"
    /\ LET p == PathJoin(DataDir, <<"decoding">>) IN
       \E o \in MkdirOutcomes(p, TRUE) :
        /\ made' = Append(made, [path |-> p, outcome |-> o])
        /\ fs' = IF o = "created" THEN fs \cup {p} ELSE fs
        /\ IF o \in {"created", "exists"}
           THEN pc' = "mkdir_mask_cache" /\ UNCHANGED <<err, result>>
           ELSE Raise("filesystem") /\ UNCHANGED result
    /\ UNCHANGED <<registryFile, lookupFile, run, resume, participants, i, k,
                   requests, derivatives_dir, prevRun>>
    /\ UNCHANGED eventVars

\* Path(data_dir, "mask_cache").mkdir(parents=True, exist_ok=True), and the
\* return of the Bunch
MkdirMaskCache ==
    /\ pc = "mkdir_mask_cache"
    /\ LET p == PathJoin(DataDir, <<"mask_cache">>) IN
       \E o \in MkdirOutcomes(p, TRUE) :
        /\ made' = Append(made, [path |-> p, outcome |-> o])
        /\ fs' = IF o = "created" THEN fs \cup {p} ELSE fs
        /\ IF o \in {"created", "exists"}
           THEN /\ result' = <<[subjects |-> participants,
                              mask |-> SelectSeq(requests, LAMBDA r : r.kind = "mask")[1].target,
                              task_dir |-> derivatives_dir[1],
                              out_dir |-> made[1].path,
                              mask_cache |-> p]>>
                /\ pc' = "returned" /\ UNCHANGED err
           ELSE Raise("filesystem") /\ UNCHANGED result
    /\ UNCHANGED <<registryFile, lookupFile, run, resume, participants, i, k,
                   requests, derivatives_dir, prevRun>>
    /\ UNCHANGED eventVars

eventsIdle ==
    /\ cwd = <<>> /\ seq = 0 /\ sessions = <<>> /\ rowIdx = 0
    /\ folders = {} /\ copied = <<>> /\ epc = "off"

Init ==
    /\ registryFile \in [sids : SeqsUpTo(SubjectIds, MaxSubjects), wellFormed : BOOLEAN]
    /\ lookupFile \in [rows : Tables, wellFormed : BOOLEAN]
    /\ fs = {}
    /\ run = 0 /\ resume = TRUE /\ pc = "idle"
    /\ participants = <<>> /\ i = 0 /\ k = 0
    /\ requests = <<>> /\ made = <<>>
    /\ derivatives_dir = <<>> /\ result = <<>> /\ err = "none"
    /\ prevRun = [returned |-> FALSE, result |-> <<>>, fs |-> {}]
    /\ eventsIdle

Next ==
    \/ Call
    \/ ParticipantsIssue
    \/ ParticipantsReturn
    \/ MaskIssue
    \/ MaskReturn
    \/ FunctionalLoad
    \/ ArtifactIssue
    \/ ArtifactReturn
    \/ FunctionalReturn
    \/ MkdirDecoding
    \/ MkdirMaskCache

Spec == Init /\ [][Next]_vars

(***************************************************************************)
(* generate_events.py                                                      *)
(***************************************************************************)
FixationMs == 500
NullStimMs == 1150
LastSeq == 3

\* the onsets (in ms) the loop over df.index appends, from trial n on
RECURSIVE Onsets(_, _, _)
Onsets(df, n, run_time) ==
    IF n > Len(df) THEN <<>>
    ELSE IF df[n].Stimtype = "nostim"
         THEN <<run_time>> \o Onsets(df, n + 1, run_time + df[n].Duration)
         ELSE <<run_time + FixationMs>>
              \o Onsets(df, n + 1, run_time + FixationMs + df[n].Duration + NullStimMs)

\* the table written for a sequence log; times are kept in ms, the file
\* holds them divided by 1000
EventsOf(df) ==
    LET onsets == Onsets(df, 1, 0) IN
    [n \in DOMAIN df |->
        [onset_ms |-> onsets[n], duration_ms |-> df[n].Duration,
         trial_type |-> df[n].Stimtype]]

SequenceLog(n) == "flanker_sequence" \o ToString(n) \o ".txt"
\* the name the generation loop writes
GeneratedName(n) == "task-FLANKERTASK" \o ToString(n) \o "_events.tsv"
\* the name the copy loop reads
CopySource(fseq) == "task-FLANKER" \o ToString(fseq) \o "_events.tsv"

fmriprep == <<"/", "media", "emdupre", "emdupre-ext4", "hbn-ssi", "fmriprep">>
FuncFolder(subid, sesid) ==
    fmriprep \o <<"sub-00" \o ToString(subid), "ses-SSV" \o ToString(sesid), "func">>
CopyDest(subid, sesid) ==
    FuncFolder(subid, sesid)
        \o <<"sub-00" \o ToString(subid) \o "_ses-SSV" \o ToString(sesid)
             \o "_task-FLANKERTASK_events.tsv">>

WriteFile(dir, name, content) ==
    [x \in DOMAIN dir \cup {name} |-> IF x = name THEN content ELSE dir[x]]

\* one pass of `for seq in range(1, 4)`: read the log, write the events
Generate ==
    /\ epc = "generate"
    /\ IF SequenceLog(seq) \notin DOMAIN cwd
       THEN epc' = "crashed" /\ UNCHANGED <<cwd, seq, rowIdx>>
       ELSE /\ cwd' = WriteFile(cwd, GeneratedName(seq), EventsOf(cwd[SequenceLog(seq)]))
            /\ IF seq < LastSeq THEN seq' = seq + 1 /\ UNCHANGED <<epc, rowIdx>>
               ELSE epc' = "copy" /\ rowIdx' = 1 /\ UNCHANGED seq
    /\ UNCHANGED <<sessions, folders, copied>>
    /\ UNCHANGED fetchVars

\* one row of the copy loop: copyfile, a FileNotFoundError (no source file,
\* or no destination folder) is passed over
Copy ==
    /\ epc = "copy"
    /\ rowIdx <= Len(sessions)
    /\ LET row == sessions[rowIdx]
           src == CopySource(row.fseq)
       IN  IF src \in DOMAIN cwd /\ FuncFolder(row.subid, row.sesid) \in folders
           THEN copied' = WriteFile(copied, CopyDest(row.subid, row.sesid), cwd[src])
           ELSE UNCHANGED copied
    /\ rowIdx' = rowIdx + 1
    /\ UNCHANGED <<cwd, seq, sessions, folders, epc>>
    /\ UNCHANGED fetchVars

\* the copy loop is over
Finish ==
    /\ epc = "copy"
    /\ rowIdx > Len(sessions)
    /\ epc' = "done"
    /\ UNCHANGED <<cwd, seq, sessions, rowIdx, folders, copied>>
    /\ UNCHANGED fetchVars

fetchIdle ==
    /\ registryFile = [sids |-> <<>>, wellFormed |-> TRUE]
    /\ lookupFile = [rows |-> <<>>, wellFormed |-> TRUE]
    /\ fs = {}
    /\ run = 0 /\ resume = TRUE /\ pc = "off"
    /\ participants = <<>> /\ i = 0 /\ k = 0
    /\ requests = <<>> /\ made = <<>>
    /\ derivatives_dir = <<>> /\ result = <<>> /\ err = "none"
    /\ prevRun = [returned |-> FALSE, result |-> <<>>, fs |-> {}]

Trials == [Stimtype : {"nostim", "congruent"}, Duration : {350}]
SessionRows == [subid : {1}, sesid : {1, 2}, fseq : 1 .. LastSeq + 1]
StaleEvents == [n \in {1} |-> [onset_ms |-> 0, duration_ms |-> 0, trial_type |-> "stale"]]

\* the working directory holds the three sequence logs and perhaps an
\* events file under the name the copy loop reads, left by an earlier run
InitEvents ==
    /\ \E df \in SeqsUpTo(Trials, MaxTrials), stale \in BOOLEAN :
        cwd = [x \in {SequenceLog(n) : n \in 1 .. LastSeq}
                     \cup (IF stale THEN {CopySource(1)} ELSE {}) |->
                IF x = CopySource(1) THEN StaleEvents ELSE df]
    /\ seq = 1
    /\ sessions \in SeqsUpTo(SessionRows, MaxRows)
    /\ rowIdx = 0
    /\ folders \in SUBSET {FuncFolder(1, 1), FuncFolder(1, 2)}
    /\ copied = <<>>
    /\ epc = "generate"
    /\ fetchIdle

NextEvents ==
    \/ Generate
    \/ Copy
    \/ Finish

SpecEvents == InitEvents /\ [][NextEvents]_vars

(***************************************************************************)
(* Properties                                                              *)
(***************************************************************************)
Kinds == {"raiders", "flanker", "condition", "run"}
SubjectRequests == SelectSeq(requests, LAMBDA r : r.subj > 0)
NoRow(sid) == RowsOf(lookupFile.rows, sid) = <<>>
Pending == {n \in DOMAIN requests : requests[n].status = "pending"}
DecodingDir == DataDir \o <<"decoding">>
MaskCacheDir == DataDir \o <<"mask_cache">>

\* C1: when a registry subject has no row in the lookup table, no retrieval
\* request is ever issued for that subject or for a subject after it in
\* registry order, the loop never passes that subject, and the call does not
\* return: it can only end in an error.
C1_FailFastOnMissingRow ==
    \A j \in DOMAIN participants :
        NoRow(participants[j]) =>
            /\ \A n \in DOMAIN requests : requests[n].subj < j
            /\ i <= j
            /\ derivatives_dir = <<>>
            /\ pc \notin {"mkdir_decoding", "mkdir_mask_cache", "returned"}
            /\ (pc = "error" /\ i = j => err = "IndexError")

\* the second of two subjects has no row, the first was fetched whole, and
\* the call ended in the IndexError of the lookup
C1_Witness ==
    /\ pc = "error" /\ err = "IndexError"
    /\ Len(participants) = 2 /\ i = 2
    /\ NoRow(participants[2]) /\ ~NoRow(participants[1])
    /\ Len(SubjectRequests) = 4

\* C2: fetch_hbnssi is all-or-nothing: when it has returned, there is a
\* result, every artifact of every registry subject and the mask were
\* retrieved successfully and are on disk, and both directories exist; when
\* it ended in an error there is no result; there is a result only when it
\* has returned.
C2_AllOrNothing ==
    /\ pc = "returned" =>
        /\ result # <<>>
        /\ result[1].subjects = registryFile.sids
        /\ \A j \in DOMAIN registryFile.sids, kind \in Kinds :
            /\ TargetOf(registryFile.sids[j], kind) \in fs
            /\ \E n \in DOMAIN requests :
                /\ requests[n].subj = j /\ requests[n].kind = kind
                /\ Succeeded(requests[n].status)
        /\ \E n \in DOMAIN requests :
            /\ requests[n].kind = "mask" /\ Succeeded(requests[n].status)
            /\ requests[n].target \in fs
            /\ result[1].mask = requests[n].target
        /\ DecodingDir \in fs /\ MaskCacheDir \in fs
    /\ pc = "error" => result = <<>> /\ err # "none"
    /\ result # <<>> => pc = "returned"

\* a call over two subjects has returned, with files downloaded
C2_Witness ==
    /\ pc = "returned" /\ Len(participants) = 2
    /\ \E n \in DOMAIN requests : requests[n].subj = 2 /\ requests[n].status = "downloaded"

\* C3: a retrieval failure propagates at once: a failed request is the last
\* request of the call (nothing is requested after it, nothing retries it)
\* and the call has ended in the retrieval error.
C3_FailurePropagates ==
    \A n \in DOMAIN requests :
        requests[n].status = "failed" =>
            n = Len(requests) /\ pc = "error" /\ err = "retrieval"

\* the first artifact of the first of two subjects failed
C3_Witness ==
    /\ Len(participants) = 2 /\ requests # <<>>
    /\ requests[Len(requests)].status = "failed"
    /\ requests[Len(requests)].subj = 1
    /\ requests[Len(requests)].kind = "raiders"

\* C4: the per-subject requests are issued one at a time in registry order:
\* request n is for subject (n-1) div 4 + 1 and for the kind raiders,
\* flanker, condition, run in turn, every request before the last one has
\* completed successfully, and at most one request is in progress.
C4_Sequential ==
    LET fr == SubjectRequests
        order == <<"raiders", "flanker", "condition", "run">>
    IN  /\ \A n \in DOMAIN fr :
            /\ fr[n].subj = ((n - 1) \div 4) + 1
            /\ fr[n].kind = order[((n - 1) % 4) + 1]
            /\ n < Len(fr) => Succeeded(fr[n].status)
        /\ Cardinality(Pending) <= 1

\* the first request of the second subject is in progress, the four of the
\* first subject are complete
C4_Witness ==
    /\ Len(SubjectRequests) = 5
    /\ SubjectRequests[5].status = "pending" /\ SubjectRequests[5].subj = 2
    /\ \A n \in 1 .. 4 : SubjectRequests[n].subj = 1 /\ Succeeded(SubjectRequests[n].status)

\* C5 as stated: the mask retrieval request is never issued before the
\* per-subject fetch has completed successfully, and the two directories
\* are never created when the per-subject fetch has not completed.
C5_MaskAfterSubjects ==
    /\ (\E n \in DOMAIN requests : requests[n].kind = "mask") => derivatives_dir # <<>>
    /\ made # <<>> => derivatives_dir # <<>>

\* C5 amended: the steps are the registry retrieval, then the single mask
\* retrieval, then the per-subject retrievals, then the two directories
\* (decoding, then mask_cache); a request is issued only after the one
\* before it succeeded, and the directories are made only after the
\* per-subject fetch has returned with every request successful.
C5_OrderOfSteps ==
    /\ \A n \in DOMAIN requests :
        /\ (n = 1) <=> (requests[n].kind = "participants")
        /\ (n = 2) <=> (requests[n].kind = "mask")
        /\ (n > 2) <=> (requests[n].subj > 0)
        /\ n > 1 => Succeeded(requests[n - 1].status)
    /\ made # <<>> =>
        /\ derivatives_dir # <<>>
        /\ Len(requests) = 2 + 4 * Len(participants)
        /\ \A n \in DOMAIN requests : Succeeded(requests[n].status)
    /\ Len(made) <= 2
    /\ \A m \in DOMAIN made :
        made[m].path = IF m = 1 THEN DecodingDir ELSE MaskCacheDir
    /\ derivatives_dir = <<>> => made = <<>>

\* both directories were made after two subjects were fetched
C5_Witness ==
    /\ Len(made) = 2 /\ Len(participants) = 2
    /\ made[1].outcome = "created" /\ made[2].outcome = "created"

\* C6: every per-subject request carries the caller's resume value.
C6_ResumeForwarded ==
    \A n \in DOMAIN requests :
        requests[n].subj > 0 => requests[n].resume = resume

\* C7: a call that follows a successful call against the same root downloads
\* nothing (every request is skipped), leaves the files and directories as
\* they were, does not fail, and returns the result the call before returned.
C7_Idempotent ==
    prevRun.returned =>
        /\ \A n \in DOMAIN requests : requests[n].status \in {"pending", "skipped"}
        /\ \A m \in DOMAIN made : made[m].outcome = "exists"
        /\ fs = prevRun.fs
        /\ pc # "error"
        /\ pc = "returned" => result = prevRun.result

\* a second call over two subjects has returned after a successful first one
C7_Witness ==
    /\ prevRun.returned /\ pc = "returned"
    /\ Len(participants) = 2 /\ Len(requests) = 10 /\ Len(made) = 2

\* C8: no per-subject request is issued with a remote location built from an
\* empty key, and a call over a registry subject whose row has an empty key
\* does not return.
C8_NoRequestFromEmptyKey ==
    /\ \A n \in DOMAIN requests :
        requests[n].subj > 0 => requests[n].url # Format(url, "")
    /\ (\E j \in DOMAIN participants, kind \in Kinds :
            /\ ~NoRow(participants[j])
            /\ RowsOf(lookupFile.rows, participants[j])[1][kind] = "")
        => pc # "returned"

C10_CopyTakesGeneratedFile ==
    \A j \in DOMAIN sessions :
        (/\ epc \in {"copy", "done"} /\ j < rowIdx
         /\ sessions[j].fseq \in 1 .. LastSeq
         /\ FuncFolder(sessions[j].subid, sessions[j].sesid) \in folders)
        => /\ CopySource(sessions[j].fseq) = GeneratedName(sessions[j].fseq)
           /\ CopyDest(sessions[j].subid, sessions[j].sesid) \in DOMAIN copied

====
